---- MODULE Spec2Model ----
(***************************************************************************)
(* Snapcast media-player platform of Home Assistant                        *)
(* (homeassistant/components/snapcast/media_player.py).                    *)
(*                                                                         *)
(* The module models the entity class SnapcastClientDevice, the service    *)
(* registration and the entity reconciliation of async_setup_entry.  The   *)
(* control library (Snapclient, Snapgroup, the server object), the         *)
(* coordinator and the host's entity platform are collaborators of the     *)
(* file; they are modelled after the design document and kept apart from   *)
(* the definitions translated from the file.                               *)
(***************************************************************************)
EXTENDS Integers, Sequences, FiniteSets, TLC

(* ------------------------------------------------------------------ *)
(* Universe                                                            *)
(* ------------------------------------------------------------------ *)

Clients == {"c1", "c2"}
Groups  == {"g1", "g2", "g3"}
Streams == {"s1", "s2"}

\* Largest latency (ms) a caller offers to the set-latency service.
MaxLatency == 2
\* Largest track number, duration and position the server reports.
MaxTrack == 2
MaxDuration == 2
MaxPosition == 2
\* Entity objects the platform creates during one run of the model.
MaxEntities == 3

(* ------------------------------------------------------------------ *)
(* Python values.  A value carries its type as the name of its only    *)
(* field, so that values of different types compare unequal.           *)
(* ------------------------------------------------------------------ *)

None    == [none |-> TRUE]
I(n)    == [int |-> n]
S(s)    == [str |-> s]
B(b)    == [bool |-> b]
L(l)    == [list |-> l]
\* A mapping: a function from the keys it holds to their values.
D(f)    == [dict |-> f]
EmptyDict == D([k \in {} |-> None])
Raised(x) == [raised |-> x]

IsNone(v)  == "none" \in DOMAIN v
IsInt(v)   == "int" \in DOMAIN v
IsRaised(v) == "raised" \in DOMAIN v

\* Python truthiness of a value.
Truthy(v) ==
    CASE "none" \in DOMAIN v -> FALSE
      [] "bool" \in DOMAIN v -> v.bool
      [] "int"  \in DOMAIN v -> v.int # 0
      [] "str"  \in DOMAIN v -> v.str # ""
      [] "list" \in DOMAIN v -> v.list # <<>>
      [] "dict" \in DOMAIN v -> DOMAIN v.dict # {}
      [] "raised" \in DOMAIN v -> FALSE

\* int(v) of Python: a bool converts to 0 or 1, an int to itself.
PyInt(v) ==
    CASE "bool" \in DOMAIN v -> I(IF v.bool THEN 1 ELSE 0)
      [] "int"  \in DOMAIN v -> v
      [] OTHER -> Raised("TypeError")

\* round(volume * 100) of Python for a volume given in thousandths:
\* round-half-to-even of t / 10.
PyRoundPercent(t) ==
    LET q == t \div 10
        r == t % 10
    IN  IF r < 5 THEN q
        ELSE IF r > 5 THEN q + 1
        ELSE IF q % 2 = 0 THEN q ELSE q + 1

VARIABLES
    clients,        \* identifiers in coordinator.server.clients
    connected,      \* Snapclient.connected
    volume,         \* Snapclient.volume, percent
    muted,          \* Snapclient.muted
    latency,        \* Snapclient.latency
    snapshotSlot,   \* the client's saved {volume, muted, latency}, or None
    callback,       \* the client's single callback slot: an entity, or 0
    clientGroup,    \* Snapclient.group
    groupClients,   \* Snapgroup.clients, ordered
    groupStream,    \* Snapgroup.stream
    groupMuted,     \* Snapgroup.muted
    streamStatus,   \* Snapstream.status
    metadata,       \* Snapstream.metadata
    properties,     \* Snapstream.properties
    coordinatorOk,  \* the coordinator entity's availability
    known,          \* _known_client_ids
    ents,           \* the entity objects: client and lifecycle phase
    registry,       \* entity registry: unique id (client) -> entity, or 0
    lastRun,        \* what the last run of _check_entities did
    call,           \* the last handler invocation and its events, in order
    snapAt,         \* history: the client's values when snapshot() last ran
    observed        \* the attributes the entity last reported to the host

clientVars == <<connected, volume, muted, latency, snapshotSlot>>
groupVars  == <<clientGroup, groupClients, groupStream, groupMuted>>
streamVars == <<streamStatus, metadata, properties>>
hostVars   == <<clients, callback, coordinatorOk, known, ents, registry, lastRun>>
vars == <<clientVars, groupVars, streamVars, hostVars, call, snapAt, observed>>


(* ------------------------------------------------------------------ *)
(* Handler invocations.  `call` holds the handler that ran last: its   *)
(* name, the entity it ran on, the argument it was given, the events   *)
(* it produced in program order, and the error it raised ("none" when  *)
(* it returned).                                                       *)
(* ------------------------------------------------------------------ *)

\* A command sent to a library object (a client or a group).
Send(on, cmd, arg) == [ev |-> "send", on |-> on, cmd |-> cmd, arg |-> arg]
Done(res)      == [ev |-> "done", res |-> res]
Write          == [ev |-> "write"]

NoCall == [op |-> "none", entity |-> 0, input |-> None, trace |-> <<>>, err |-> "none"]

\* An awaited library command: the request, then its outcome.
Await(on, cmd, arg, r) == <<Send(on, cmd, arg), Done(r)>>

\* `await <command>` followed by `self.async_write_ha_state()`: the write
\* happens when the await returns; an exception raised by the await leaves
\* the method at once.
AwaitThenWrite(events, r) == IF r = "ok" THEN events \o <<Write>> ELSE events

ErrOf(r) == IF r = "ok" THEN "none" ELSE r

Entities == 1..MaxEntities
\* self._client of an entity object.
ClientOf(e) == ents[e].client
\* The entities the host has added and not yet removed.
Added == {e \in Entities : ents[e].phase = "added"}

(* ------------------------------------------------------------------ *)
(* Control library: client commands (design document, section 4.3).    *)
(* A command that fails leaves the mirrored state as it was.           *)
(* ------------------------------------------------------------------ *)

Transient == {"Timeout", "Cancelled"}

SetVolumeOutcomes(percent) ==
    IF percent \in 0..100 THEN {"ok"} \cup Transient ELSE {"InvalidArgument"}

ClientSetVolume(c, percent, r) ==
    /\ volume' = IF r = "ok" THEN [volume EXCEPT ![c] = percent] ELSE volume
    /\ UNCHANGED <<connected, muted, latency, snapshotSlot>>

ClientSetMuted(c, mute, r) ==
    /\ muted' = IF r = "ok" THEN [muted EXCEPT ![c] = mute] ELSE muted
    /\ UNCHANGED <<connected, volume, latency, snapshotSlot>>

ClientSetLatency(c, ms, r) ==
    /\ latency' = IF r = "ok" THEN [latency EXCEPT ![c] = ms] ELSE latency
    /\ UNCHANGED <<connected, volume, muted, snapshotSlot>>

Saved(c) == [volume |-> volume[c], muted |-> muted[c], latency |-> latency[c]]

\* snapshot(clientId): local only, copies the current values into the slot.
ClientSnapshot(c) ==
    /\ snapshotSlot' = [snapshotSlot EXCEPT ![c] = Saved(c)]
    /\ UNCHANGED <<connected, volume, muted, latency>>

\* restore(clientId): InvalidState without a snapshot; otherwise the three
\* set-commands in turn.  failAt = 0: all three succeed and the slot is
\* cleared; failAt = k: the k-th command fails, the ones before it are
\* applied and the snapshot is retained.
RestoreOutcomes(c) ==
    IF IsNone(snapshotSlot[c]) THEN {<<0, "InvalidState">>}
    ELSE {<<0, "ok">>} \cup ((1..3) \X Transient)

ClientRestore(c, o) ==
    LET snap == snapshotSlot[c]
        k == o[1]
        has == ~IsNone(snap)
    IN  /\ volume' = IF has /\ (k = 0 \/ k > 1)
                       THEN [volume EXCEPT ![c] = snap.volume] ELSE volume
        /\ muted' = IF has /\ (k = 0 \/ k > 2)
                      THEN [muted EXCEPT ![c] = snap.muted] ELSE muted
        /\ latency' = IF has /\ k = 0
                        THEN [latency EXCEPT ![c] = snap.latency] ELSE latency
        /\ snapshotSlot' = IF o[2] = "ok"
                             THEN [snapshotSlot EXCEPT ![c] = None]
                             ELSE snapshotSlot
        /\ UNCHANGED connected

(* ------------------------------------------------------------------ *)
(* SnapcastClientDevice: volume, mute, latency, snapshot and restore   *)
(* ------------------------------------------------------------------ *)

CtlFrame == UNCHANGED <<groupVars, streamVars, hostVars, observed>>

\* History: whether a command changed one of the client's three values
\* after snapshot() last ran.
NoteMutation(c) ==
    snapAt' = IF ~IsNone(snapAt[c])
                 /\ (volume'[c] # volume[c] \/ muted'[c] # muted[c]
                     \/ latency'[c] # latency[c])
              THEN [snapAt EXCEPT ![c].mutated = TRUE]
              ELSE snapAt

\* async_mute_volume with the state write in a `finally:` clause.
async_mute_volume_finally(e, mute) ==
    \E r \in {"ok"} \cup Transient :
        /\ ClientSetMuted(ClientOf(e), mute, r)
        /\ call' = [op |-> "async_mute_volume", entity |-> e, input |-> B(mute),
                    trace |-> Await(ClientOf(e), "set_muted", B(mute), r) \o <<Write>>,
                    err |-> ErrOf(r)]
        /\ NoteMutation(ClientOf(e))
        /\ CtlFrame

async_mute_volume(e, mute) ==
    \E r \in {"ok"} \cup Transient :
        /\ ClientSetMuted(ClientOf(e), mute, r)
        /\ call' = [op |-> "async_mute_volume", entity |-> e, input |-> B(mute),
                    trace |-> AwaitThenWrite(Await(ClientOf(e), "set_muted", B(mute), r), r),
                    err |-> ErrOf(r)]
        /\ NoteMutation(ClientOf(e))
        /\ CtlFrame

\* volume is the host's volume level 0.0 .. 1.0, in thousandths.
async_set_volume_level(e, vol) ==
    LET percent == PyRoundPercent(vol)
    IN  \E r \in SetVolumeOutcomes(percent) :
            /\ ClientSetVolume(ClientOf(e), percent, r)
            /\ call' = [op |-> "async_set_volume_level", entity |-> e,
                        input |-> I(vol),
                        trace |-> AwaitThenWrite(Await(ClientOf(e), "set_volume", I(percent), r), r),
                        err |-> ErrOf(r)]
            /\ NoteMutation(ClientOf(e))
            /\ CtlFrame

\* snapshot(): not awaited, no state write.  snapAt remembers what the
\* client's values were when it ran.
snapshot(e) ==
    /\ ClientSnapshot(ClientOf(e))
    /\ snapAt' = [snapAt EXCEPT ![ClientOf(e)] =
                       [saved |-> Saved(ClientOf(e)), mutated |-> FALSE]]
    /\ call' = [op |-> "snapshot", entity |-> e, input |-> None,
                trace |-> <<>>, err |-> "none"]
    /\ CtlFrame

\* async_restore with the coroutine of client.restore() never awaited.
async_restore_not_awaited(e) ==
    /\ call' = [op |-> "async_restore", entity |-> e, input |-> None,
                trace |-> <<Send(ClientOf(e), "restore", None), Write>>,
                err |-> "none"]
    /\ UNCHANGED <<clientVars, snapAt>>
    /\ CtlFrame

async_restore(e) ==
    \E o \in RestoreOutcomes(ClientOf(e)) :
        /\ ClientRestore(ClientOf(e), o)
        /\ call' = [op |-> "async_restore", entity |-> e, input |-> None,
                    trace |-> AwaitThenWrite(Await(ClientOf(e), "restore", None, o[2]), o[2]),
                    err |-> ErrOf(o[2])]
        /\ UNCHANGED snapAt
        /\ CtlFrame

async_set_latency(e, lat) ==
    \E r \in {"ok"} \cup Transient :
        /\ ClientSetLatency(ClientOf(e), lat.int, r)
        /\ call' = [op |-> "async_set_latency", entity |-> e, input |-> lat,
                    trace |-> AwaitThenWrite(Await(ClientOf(e), "set_latency", lat, r), r),
                    err |-> ErrOf(r)]
        /\ NoteMutation(ClientOf(e))
        /\ CtlFrame

\* cv.positive_int (helpers/config_validation.py), after the design
\* document's "positive-integer latency value": the value itself when it
\* is an integer greater than zero, vol.Invalid otherwise.
positive_int(v) == IF IsInt(v) /\ v.int > 0 THEN v ELSE Raised("Invalid")

\* The service registered with cv.int in place of cv.positive_int.
service_set_latency_any_int(e, data) ==
    IF ~IsInt(data)
    THEN /\ call' = [op |-> "service_set_latency", entity |-> e,
                     input |-> data, trace |-> <<>>, err |-> "Invalid"]
         /\ UNCHANGED <<clientVars, snapAt>>
         /\ CtlFrame
    ELSE async_set_latency(e, data)

\* The set-latency entity service: the schema validates the call's data
\* before the entity method is called with it.
service_set_latency(e, data) ==
    LET checked == positive_int(data)
    IN  IF IsRaised(checked)
        THEN /\ call' = [op |-> "service_set_latency", entity |-> e,
                         input |-> data, trace |-> <<>>, err |-> checked.raised]
             /\ UNCHANGED <<clientVars, snapAt>>
             /\ CtlFrame
        ELSE async_set_latency(e, checked)


(* ------------------------------------------------------------------ *)
(* Control library: groups and streams (design document, 3 and 4.3).   *)
(* A group exists while its client list is not empty.                  *)
(* ------------------------------------------------------------------ *)

StreamName == [s \in Streams |-> IF s = "s1" THEN "Radio" ELSE "Spotify"]

\* Snapgroup.streams_by_name(): name -> stream, from the server's streams.
streams_by_name(g) ==
    [n \in {StreamName[s] : s \in Streams} |->
        CHOOSE s \in Streams : StreamName[s] = n]

Members(g) == {groupClients[g][i] : i \in 1..Len(groupClients[g])}

GroupSetStream(g, sid, r) ==
    /\ groupStream' = IF r = "ok" THEN [groupStream EXCEPT ![g] = sid]
                      ELSE groupStream
    /\ UNCHANGED <<clientGroup, groupClients, groupMuted>>

Without(list, c) == SelectSeq(list, LAMBDA x : x # c)

\* joinGroup(g, c) on a grouping gs = [cg |-> back-references, gc |-> lists]:
\* c leaves the list that holds it and is appended to g's; nothing changes
\* when g already holds c.
JoinGroup(gs, g, c) ==
    IF gs.cg[c] = g THEN gs
    ELSE [cg |-> [gs.cg EXCEPT ![c] = g],
          gc |-> [gs.gc EXCEPT ![gs.cg[c]] = Without(@, c),
                               ![g] = Append(@, c)]]

\* leaveGroup(c): c leaves the group that holds it for a group of its own,
\* `fresh`, which takes over the old group's stream.
FreshGroups == {g \in Groups : groupClients[g] = <<>>}

GroupRemoveClient(g, c, fresh, r) ==
    IF r = "ok"
    THEN /\ clientGroup' = [clientGroup EXCEPT ![c] = fresh]
         /\ groupClients' = [groupClients EXCEPT ![g] = Without(@, c),
                                                 ![fresh] = <<c>>]
         /\ groupStream' = [groupStream EXCEPT ![fresh] = groupStream[g]]
         /\ UNCHANGED groupMuted
    ELSE UNCHANGED groupVars

(* ------------------------------------------------------------------ *)
(* SnapcastClientDevice: source selection and grouping                 *)
(* ------------------------------------------------------------------ *)

GrpFrame == UNCHANGED <<clientVars, streamVars, hostVars, snapAt, observed>>

\* self._client.group
_current_group(e) == clientGroup[ClientOf(e)]

source_list(e) == DOMAIN streams_by_name(_current_group(e))

async_select_source(e, source) ==
    LET streams == streams_by_name(_current_group(e))
    IN  IF source \in DOMAIN streams
        THEN \E r \in {"ok"} \cup Transient :
                 /\ GroupSetStream(_current_group(e), streams[source], r)
                 /\ call' = [op |-> "async_select_source", entity |-> e,
                             input |-> S(source),
                             trace |-> AwaitThenWrite(
                                 Await(_current_group(e), "set_stream",
                                       S(streams[source]), r), r),
                             err |-> ErrOf(r)]
                 /\ GrpFrame
        ELSE /\ call' = [op |-> "async_select_source", entity |-> e,
                         input |-> S(source), trace |-> <<>>, err |-> "none"]
             /\ UNCHANGED groupVars
             /\ GrpFrame

\* component.get_entity(member): the entity with that entity id, if the
\* platform holds one.
get_entity(member) == IF member \in Added THEN member ELSE 0

\* The identifiers of the members that resolve to an entity, in list order.
client_ids(group_members) ==
    LET resolved == SelectSeq(group_members, LAMBDA m : get_entity(m) # 0)
    IN  [i \in 1..Len(resolved) |-> ClientOf(resolved[i])]

\* The loop `for identifier in client_ids: await
\* self._current_group.add_client(identifier)` from its i-th iteration on,
\* on the grouping gs; the failAt-th command fails (0: none does) and ends
\* the loop.  The caller's group is read anew in every iteration.
RECURSIVE JoinLoop(_, _, _, _, _)
JoinLoop(gs, self, ids, i, failAt) ==
    IF i > Len(ids) \/ i = failAt THEN gs
    ELSE JoinLoop(JoinGroup(gs, gs.cg[self], ids[i]), self, ids, i + 1, failAt)

RECURSIVE JoinTrace(_, _, _, _, _, _)
JoinTrace(gs, self, ids, i, failAt, err) ==
    IF i > Len(ids) THEN <<>>
    ELSE IF i = failAt THEN Await(gs.cg[self], "add_client", S(ids[i]), err)
    ELSE Await(gs.cg[self], "add_client", S(ids[i]), "ok")
         \o JoinTrace(JoinGroup(gs, gs.cg[self], ids[i]), self, ids, i + 1,
                      failAt, err)

\* async_join_players with the loop leaving out the last identifier.
async_join_players_short(e, group_members) ==
    LET all == client_ids(group_members)
        ids == SubSeq(all, 1, Len(all) - 1)
        gs == [cg |-> clientGroup, gc |-> groupClients]
        after == JoinLoop(gs, ClientOf(e), ids, 1, 0)
    IN  /\ clientGroup' = after.cg
        /\ groupClients' = after.gc
        /\ UNCHANGED <<groupStream, groupMuted>>
        /\ call' = [op |-> "async_join_players", entity |-> e,
                    input |-> L(group_members),
                    trace |-> JoinTrace(gs, ClientOf(e), ids, 1, 0, "ok") \o <<Write>>,
                    err |-> "none"]
        /\ GrpFrame

async_join_players(e, group_members) ==
    LET ids == client_ids(group_members)
        gs == [cg |-> clientGroup, gc |-> groupClients]
    IN  \E failAt \in 0..Len(ids), err \in Transient :
            LET r == IF failAt = 0 THEN "ok" ELSE err
                after == JoinLoop(gs, ClientOf(e), ids, 1, failAt)
            IN  /\ (failAt = 0 => err = "Timeout")
                /\ clientGroup' = after.cg
                /\ groupClients' = after.gc
                /\ UNCHANGED <<groupStream, groupMuted>>
                /\ call' = [op |-> "async_join_players", entity |-> e,
                            input |-> L(group_members),
                            trace |-> AwaitThenWrite(
                                JoinTrace(gs, ClientOf(e), ids, 1, failAt, err), r),
                            err |-> ErrOf(r)]
                /\ GrpFrame

async_unjoin_player(e) ==
    \E r \in {"ok"} \cup Transient, fresh \in FreshGroups :
        /\ GroupRemoveClient(_current_group(e), ClientOf(e), fresh, r)
        /\ call' = [op |-> "async_unjoin_player", entity |-> e, input |-> None,
                    trace |-> AwaitThenWrite(
                        Await(_current_group(e), "remove_client",
                              S(ClientOf(e)), r), r),
                    err |-> ErrOf(r)]
        /\ GrpFrame

(* ------------------------------------------------------------------ *)
(* SnapcastClientDevice: availability, state and media attributes      *)
(* ------------------------------------------------------------------ *)

\* dict.get(key, default)
DictGet(d, key, default) == IF key \in DOMAIN d.dict THEN d.dict[key] ELSE default

\* value[0]
Index0(v) ==
    IF IsRaised(v) THEN v
    ELSE IF v.list = <<>> THEN Raised("IndexError") ELSE v.list[1]

\* self.coordinator.server.stream(self._current_group.stream)
current_stream(e) == groupStream[_current_group(e)]

\* super().available: the coordinator entity's availability.
coordinator_available == coordinatorOk

available(e) == coordinator_available /\ connected[ClientOf(e)]

\* STREAM_STATUS.get(status)
STREAM_STATUS(status) ==
    CASE status = "idle" -> S("idle")
      [] status = "playing" -> S("playing")
      [] status = "unknown" -> None
      [] OTHER -> None

is_volume_muted(e) == muted[ClientOf(e)]

\* Snapgroup.stream_status: the status of the group's stream.
stream_status(g) == streamStatus[groupStream[g]]

\* The state that ignores the group's mute flag.
state_client_mute_only(e) ==
    IF connected[ClientOf(e)]
    THEN IF is_volume_muted(e) THEN S("idle")
         ELSE STREAM_STATUS(stream_status(_current_group(e)))
    ELSE S("standby")

state(e) ==
    IF connected[ClientOf(e)]
    THEN IF is_volume_muted(e) \/ groupMuted[_current_group(e)]
         THEN S("idle")
         ELSE STREAM_STATUS(stream_status(_current_group(e)))
    ELSE S("standby")

\* _get_metadata with metadata[key] in place of metadata.get(key, default).
_get_metadata_subscript(e, key, default) ==
    LET md == metadata[current_stream(e)]
    IN  IF Truthy(md)
        THEN IF key \in DOMAIN md.dict THEN md.dict[key] ELSE Raised("KeyError")
        ELSE default

_get_metadata(e, key, default) ==
    LET md == metadata[current_stream(e)]
    IN  IF Truthy(md) THEN DictGet(md, key, default) ELSE default

media_title(e) == _get_metadata(e, "title", None)
media_image_url(e) == _get_metadata(e, "artUrl", None)
media_artist(e) == Index0(_get_metadata(e, "artist", L(<<None>>)))
media_album_name(e) == _get_metadata(e, "album", None)
media_album_artist(e) == Index0(_get_metadata(e, "albumArtist", L(<<None>>)))

\* `if value := self._get_metadata(key) is not None: return int(value)`:
\* the walrus binds the result of the comparison.
media_track(e) ==
    LET value == B(~IsNone(_get_metadata(e, "trackNumber", None)))
    IN  IF Truthy(value) THEN PyInt(value) ELSE None

media_duration(e) ==
    LET value == B(~IsNone(_get_metadata(e, "duration", None)))
    IN  IF Truthy(value) THEN PyInt(value) ELSE None

media_position(e) ==
    LET props == properties[current_stream(e)]
    IN  IF Truthy(props)
        THEN LET value == B(~IsNone(DictGet(props, "position", None)))
             IN  IF Truthy(value) THEN PyInt(value) ELSE None
        ELSE None

\* What a state write hands to the host.
Attributes(e) ==
    [available |-> available(e),
     state |-> state(e),
     media_title |-> media_title(e),
     media_image_url |-> media_image_url(e),
     media_artist |-> media_artist(e),
     media_album_name |-> media_album_name(e),
     media_album_artist |-> media_album_artist(e),
     media_track |-> media_track(e),
     media_duration |-> media_duration(e),
     media_position |-> media_position(e)]

Reported == [e \in Entities |-> IF e \in Added THEN Attributes(e) ELSE None]

(* ------------------------------------------------------------------ *)
(* Initial state: the server reports both clients, each alone in its   *)
(* group, and the platform has added one entity per client.            *)
(* ------------------------------------------------------------------ *)

NoEntity == [client |-> "-", phase |-> "free"]
NoRun == [ids |-> {}, before |-> {}, added |-> {}, lookups |-> {}, removed |-> {}]

InitLibrary ==
    /\ connected = [c \in Clients |-> TRUE]
    /\ volume = [c \in Clients |-> 100]
    /\ muted = [c \in Clients |-> FALSE]
    /\ latency = [c \in Clients |-> 0]
    /\ snapshotSlot = [c \in Clients |-> None]
    /\ clientGroup = [c \in Clients |-> IF c = "c1" THEN "g1" ELSE "g2"]
    /\ groupClients = [g \in Groups |-> CASE g = "g1" -> <<"c1">>
                                          [] g = "g2" -> <<"c2">>
                                          [] OTHER -> <<>>]
    /\ groupStream = [g \in Groups |-> "s1"]
    /\ groupMuted = [g \in Groups |-> FALSE]
    /\ streamStatus = [s \in Streams |-> IF s = "s1" THEN "playing" ELSE "idle"]
    /\ metadata = [s \in Streams |-> None]
    /\ properties = [s \in Streams |-> None]

\* The platform after setup: entity 1 for c1 and entity 2 for c2, added.
InitAdded ==
    /\ clients = Clients
    /\ coordinatorOk = TRUE
    /\ known = Clients
    /\ ents = [e \in Entities |-> CASE e = 1 -> [client |-> "c1", phase |-> "added"]
                                    [] e = 2 -> [client |-> "c2", phase |-> "added"]
                                    [] OTHER -> NoEntity]
    /\ registry = [c \in Clients |-> IF c = "c1" THEN 1 ELSE 2]
    /\ callback = [c \in Clients |-> IF c = "c1" THEN 1 ELSE 2]
    /\ lastRun = NoRun
    /\ call = NoCall
    /\ snapAt = [c \in Clients |-> None]
    /\ observed = Reported

(* ------------------------------------------------------------------ *)
(* SpecCtl: the volume, mute, latency, snapshot and restore services   *)
(* ------------------------------------------------------------------ *)

\* Volume levels a caller passes, in thousandths: 0.0, 0.505, 1.0, 1.5.
VolumeInputs == {0, 505, 1000, 1500}
\* Data a caller passes to the set-latency service.
LatencyInputs == {I(n) : n \in -1..MaxLatency} \cup {S("fast")}

\* The entity whose services the callers of this specification use.
CtlEntities == {1}

InitCtl == InitLibrary /\ InitAdded

MuteVolume == \E e \in CtlEntities \cap Added, mute \in BOOLEAN :
                  async_mute_volume(e, mute)
SetVolumeLevel == \E e \in CtlEntities \cap Added, vol \in VolumeInputs :
                      async_set_volume_level(e, vol)
Snapshot == \E e \in CtlEntities \cap Added : snapshot(e)
Restore == \E e \in CtlEntities \cap Added : async_restore(e)
SetLatency == \E e \in CtlEntities \cap Added, data \in LatencyInputs :
                  service_set_latency(e, data)

NextCtl == MuteVolume \/ SetVolumeLevel \/ Snapshot \/ Restore \/ SetLatency

SpecCtl == InitCtl /\ [][NextCtl]_vars

(* ------------------------------------------------------------------ *)
(* Properties of the control services                                  *)
(* ------------------------------------------------------------------ *)

\* C4: the set-latency service rejects every value that is not a positive
\* integer before client.set_latency is called (no command is sent and the
\* call ends with vol.Invalid), and async_set_latency only ever runs with a
\* positive integer, which it sends to client.set_latency unchanged,
\* whatever its size.
C4_LatencyServiceContract ==
    /\ call.op = "service_set_latency" =>
           /\ ~(IsInt(call.input) /\ call.input.int > 0)
           /\ call.trace = <<>>
           /\ call.err = "Invalid"
    /\ call.op = "async_set_latency" =>
           /\ IsInt(call.input) /\ call.input.int > 0
           /\ call.trace[1] = Send(ClientOf(call.entity), "set_latency", call.input)
           /\ (call.err = "none" =>
                   latency[ClientOf(call.entity)] = call.input.int)

\* A negative latency is rejected after the largest offered latency was
\* accepted and stored: the stored latency is untouched.
C4_Witness ==
    /\ call.op = "service_set_latency"
    /\ call.input = I(-1)
    /\ call.trace = <<>>
    /\ latency[ClientOf(call.entity)] = MaxLatency

\* C5: when async_restore returns, the client's volume, muted flag and
\* latency equal the values they had when snapshot() last ran, whatever
\* volume, mute and latency commands ran in between.
C5_RestoreRoundTrip ==
    (call.op = "async_restore" /\ call.err = "none") =>
        LET c == ClientOf(call.entity)
        IN  /\ ~IsNone(snapAt[c])
            /\ Saved(c) = snapAt[c].saved

\* A restore that returned after all three values had been changed since
\* the snapshot.
C5_Witness ==
    /\ call.op = "async_restore"
    /\ call.err = "none"
    /\ LET c == ClientOf(call.entity)
       IN  /\ ~IsNone(snapAt[c])
           /\ snapAt[c].mutated
           /\ snapAt[c].saved = [volume |-> 50, muted |-> TRUE, latency |-> MaxLatency]
           /\ Saved(c) = snapAt[c].saved


(* ------------------------------------------------------------------ *)
(* SpecGrp: source selection, join and unjoin                          *)
(* ------------------------------------------------------------------ *)

\* Source names a caller selects; "S9" names no stream.
SourceInputs == {"Radio", "Spotify", "S9"}
\* Member lists a caller passes to join: entity ids, one or two of them.
MemberLists == {<<m>> : m \in Entities} \cup {<<m, n>> : m, n \in Entities}

SelectSource == \E e \in Added, source \in SourceInputs :
                    async_select_source(e, source)
JoinPlayers == \E e \in Added, group_members \in MemberLists :
                   async_join_players(e, group_members)
UnjoinPlayer == \E e \in Added : async_unjoin_player(e)

InitGrp == InitLibrary /\ InitAdded

NextGrp == SelectSource \/ JoinPlayers \/ UnjoinPlayer

SpecGrp == InitGrp /\ [][NextGrp]_vars


(* ------------------------------------------------------------------ *)
(* Properties of source selection and grouping                         *)
(* ------------------------------------------------------------------ *)

\* C1: selecting a source whose name is not among the group's candidate
\* streams fails with NotFound and sends no set_stream command.
C1_UnknownSourceNotFound ==
    (call.op = "async_select_source"
        /\ call.input.str \notin source_list(call.entity)) =>
        /\ call.err = "NotFound"
        /\ call.trace = <<>>

\* Every client is in the list of exactly one group, the one its
\* back-reference names, and no list names a client twice.
GroupingConsistent ==
    /\ \A c \in Clients, g \in Groups : (c \in Members(g)) <=> (clientGroup[c] = g)
    /\ \A g \in Groups : Len(groupClients[g]) = Cardinality(Members(g))

\* C8: when async_join_players returns, add_client was sent to the
\* caller's group once per member that resolves to an entity, in list
\* order, and each of those clients is in the caller's group; when
\* async_unjoin_player returns, the caller's client has left the group that
\* held it; and the grouping stays consistent throughout.
C8_JoinUnjoin ==
    /\ (call.op = "async_join_players" /\ call.err = "none") =>
           LET ids == client_ids(call.input.list)
               self == ClientOf(call.entity)
           IN  /\ Len(call.trace) = 2 * Len(ids) + 1
               /\ \A i \in 1..Len(ids) :
                      /\ call.trace[2 * i - 1] =
                             Send(clientGroup[self], "add_client", S(ids[i]))
                      /\ clientGroup[ids[i]] = clientGroup[self]
                      /\ ids[i] \in Members(clientGroup[self])
    /\ (call.op = "async_unjoin_player" /\ call.err = "none") =>
           LET held == call.trace[1].on
               self == ClientOf(call.entity)
           IN  /\ self \notin Members(held)
               /\ clientGroup[self] # held
    /\ GroupingConsistent

\* Entity 1 joined <<unknown id, entity 2>>: the unknown id was skipped and
\* c2 moved into c1's group, behind c1.
C8_Witness ==
    /\ call.op = "async_join_players"
    /\ call.err = "none"
    /\ call.entity = 1
    /\ call.input = L(<<MaxEntities, 2>>)
    /\ Len(call.trace) = 3
    /\ groupClients[clientGroup["c1"]] = <<"c1", "c2">>

(* ------------------------------------------------------------------ *)
(* SpecCmd: all seven command methods of one entity, each with one     *)
(* argument, and snapshot() so that restore has something to restore.  *)
(* ------------------------------------------------------------------ *)

CmdEntities == {1}
CmdMemberLists == {<<2>>, <<3, 2>>, <<2, 1>>}

CmdSelectSource == \E e \in CmdEntities \cap Added :
                       async_select_source(e, "Spotify")
CmdMuteVolume == \E e \in CmdEntities \cap Added : async_mute_volume(e, TRUE)
CmdSetVolumeLevel == \E e \in CmdEntities \cap Added :
                         async_set_volume_level(e, 505)
CmdSnapshot == \E e \in CmdEntities \cap Added : snapshot(e)
CmdRestore == \E e \in CmdEntities \cap Added : async_restore(e)
CmdSetLatency == \E e \in CmdEntities \cap Added :
                     service_set_latency(e, I(1))
CmdJoinPlayers == \E e \in CmdEntities \cap Added,
                     group_members \in CmdMemberLists :
                      async_join_players(e, group_members)
CmdUnjoinPlayer == \E e \in CmdEntities \cap Added : async_unjoin_player(e)

InitCmd == InitLibrary /\ InitAdded

NextCmd ==
    \/ CmdSelectSource \/ CmdMuteVolume \/ CmdSetVolumeLevel \/ CmdSnapshot
    \/ CmdRestore \/ CmdSetLatency \/ CmdJoinPlayers \/ CmdUnjoinPlayer

SpecCmd == InitCmd /\ [][NextCmd]_vars


(* ------------------------------------------------------------------ *)
(* Properties of the command methods                                   *)
(* ------------------------------------------------------------------ *)

CommandOps == {"async_select_source", "async_mute_volume",
               "async_set_volume_level", "async_restore", "async_set_latency",
               "async_join_players", "async_unjoin_player"}

\* C7: in every command method the state write is the last event and
\* follows only commands that completed; a command that fails is the last
\* event of the method (nothing is sent again, nothing is written) and its
\* error is the method's error; a method that returns has written.
C7_WriteAfterCompletion ==
    call.op \in CommandOps =>
        LET t == call.trace
        IN  /\ \A i \in 1..Len(t) :
                   /\ t[i].ev = "write" => i = Len(t)
                   /\ t[i].ev = "send" => (i < Len(t) /\ t[i + 1].ev = "done")
                   /\ t[i].ev = "done" =>
                          (t[i].res = "ok" \/ (i = Len(t) /\ call.err = t[i].res))
            /\ call.err = "none" => (Len(t) > 0 /\ t[Len(t)] = Write)
            /\ call.err # "none" =>
                   (Len(t) > 0 /\ t[Len(t)].ev = "done" /\ t[Len(t)].res = call.err)

\* A join whose second add_client timed out: the first was applied, the
\* second was sent once, and no state was written.
C7_Witness ==
    /\ call.op = "async_join_players"
    /\ call.err = "Timeout"
    /\ Len(call.trace) = 4
    /\ call.trace[2] = Done("ok")
    /\ call.trace[4] = Done("Timeout")
    /\ clientGroup["c2"] = clientGroup["c1"]


(* ------------------------------------------------------------------ *)
(* Notifications: the library applies a server message to its mirror   *)
(* and calls back; the entities write their state, reading every       *)
(* attribute (design document, 4.2 and 4.4).                           *)
(* ------------------------------------------------------------------ *)

Refresh == observed' = Reported'

Put(f, k, v) == [x \in DOMAIN f \cup {k} |-> IF x = k THEN v ELSE f[x]]
Drop(f, k) == [x \in DOMAIN f \ {k} |-> f[x]]
DictOf(v) == IF IsNone(v) THEN EmptyDict.dict ELSE v.dict

MetadataKeys == {"title", "artUrl", "artist", "album", "albumArtist",
                 "trackNumber", "duration"}

\* The values the server reports under a metadata key.
MetadataValues(k) ==
    CASE k = "title" -> {S("Song")}
      [] k = "artUrl" -> {S("http://art")}
      [] k = "artist" -> {L(<<S("A1"), S("A2")>>)}
      [] k = "album" -> {S("Album")}
      [] k = "albumArtist" -> {L(<<S("B1")>>)}
      [] k = "trackNumber" -> {I(n) : n \in 0..MaxTrack}
      [] k = "duration" -> {I(n) : n \in 0..MaxDuration}

PropertyValues ==
    {None, EmptyDict, D([k \in {"canSeek"} |-> B(TRUE)])}
    \cup {D([k \in {"position"} |-> I(n)]) : n \in 0..MaxPosition}

MediaFrame == UNCHANGED <<clientVars, hostVars, call, snapAt>>

OnMetadataKey(s, k, v) ==
    /\ metadata' = [metadata EXCEPT ![s] = D(Put(DictOf(@), k, v))]
    /\ UNCHANGED <<streamStatus, properties, groupVars>>
    /\ MediaFrame
    /\ Refresh

OnMetadataDrop(s, k) ==
    /\ ~IsNone(metadata[s])
    /\ k \in DOMAIN metadata[s].dict
    /\ metadata' = [metadata EXCEPT ![s] = D(Drop(@.dict, k))]
    /\ UNCHANGED <<streamStatus, properties, groupVars>>
    /\ MediaFrame
    /\ Refresh

OnMetadataNone(s) ==
    /\ metadata' = [metadata EXCEPT ![s] = None]
    /\ UNCHANGED <<streamStatus, properties, groupVars>>
    /\ MediaFrame
    /\ Refresh

OnProperties(s, p) ==
    /\ properties' = [properties EXCEPT ![s] = p]
    /\ UNCHANGED <<streamStatus, metadata, groupVars>>
    /\ MediaFrame
    /\ Refresh

OnGroupStream(g, s) ==
    /\ groupStream' = [groupStream EXCEPT ![g] = s]
    /\ UNCHANGED <<clientGroup, groupClients, groupMuted, streamVars>>
    /\ MediaFrame
    /\ Refresh

OnStreamStatus(s, status) ==
    /\ streamStatus' = [streamStatus EXCEPT ![s] = status]
    /\ UNCHANGED <<metadata, properties, groupVars>>
    /\ MediaFrame
    /\ Refresh

OnGroupMute(g, mute) ==
    /\ groupMuted' = [groupMuted EXCEPT ![g] = mute]
    /\ UNCHANGED <<clientGroup, groupClients, groupStream, streamVars>>
    /\ MediaFrame
    /\ Refresh

OnClientConnected(c, up) ==
    /\ connected' = [connected EXCEPT ![c] = up]
    /\ UNCHANGED <<volume, muted, latency, snapshotSlot>>
    /\ UNCHANGED <<groupVars, streamVars, hostVars, call, snapAt>>
    /\ Refresh

OnClientMute(c, mute) ==
    /\ muted' = [muted EXCEPT ![c] = mute]
    /\ UNCHANGED <<connected, volume, latency, snapshotSlot>>
    /\ UNCHANGED <<groupVars, streamVars, hostVars, call, snapAt>>
    /\ Refresh

\* The coordinator's update succeeds or fails.
CoordinatorUpdate(ok) ==
    /\ coordinatorOk' = ok
    /\ UNCHANGED <<clients, callback, known, ents, registry, lastRun>>
    /\ UNCHANGED <<clientVars, groupVars, streamVars, call, snapAt>>
    /\ Refresh

(* ------------------------------------------------------------------ *)
(* SpecMedia: metadata and properties of stream s1, which group g1     *)
(* plays or leaves for s2                                              *)
(* ------------------------------------------------------------------ *)

MetadataKey == \E k \in MetadataKeys : \E v \in MetadataValues(k) :
                   OnMetadataKey("s1", k, v)
MetadataDrop == \E k \in MetadataKeys : OnMetadataDrop("s1", k)
MetadataNone == OnMetadataNone("s1")
Properties == \E p \in PropertyValues : OnProperties("s1", p)
GroupStream == \E s \in Streams : OnGroupStream("g1", s)

InitMedia == InitLibrary /\ InitAdded

NextMedia == MetadataKey \/ MetadataDrop \/ MetadataNone \/ Properties \/ GroupStream

SpecMedia == InitMedia /\ [][NextMedia]_vars

(* ------------------------------------------------------------------ *)
(* SpecState: connection, mute flags, stream status and coordinator    *)
(* ------------------------------------------------------------------ *)

\* "paused" stands for a status the STREAM_STATUS table does not list.
StatusValues == {"idle", "playing", "unknown", "paused"}

StreamStatus == \E s \in Streams, status \in StatusValues : OnStreamStatus(s, status)
GroupMute == \E g \in Groups, mute \in BOOLEAN : OnGroupMute(g, mute)
ClientConnected == \E c \in Clients, up \in BOOLEAN : OnClientConnected(c, up)
ClientMute == \E c \in Clients, mute \in BOOLEAN : OnClientMute(c, mute)
Coordinator == \E ok \in BOOLEAN : CoordinatorUpdate(ok)

InitState == InitLibrary /\ InitAdded

NextState == StreamStatus \/ GroupMute \/ ClientConnected \/ ClientMute \/ Coordinator

SpecState == InitState /\ [][NextState]_vars


(* ------------------------------------------------------------------ *)
(* Properties of the attributes                                        *)
(* ------------------------------------------------------------------ *)

Has(d, k) == ~IsNone(d) /\ k \in DOMAIN d.dict

\* C2: when the current stream's metadata holds trackNumber = n the entity
\* reports media_track = n, when it holds duration = d it reports
\* media_duration = d, and when the stream's properties hold position = p
\* it reports media_position = p.
C2_NumericAccessors ==
    \A e \in Added :
        LET md == metadata[current_stream(e)]
            pr == properties[current_stream(e)]
        IN  /\ Has(md, "trackNumber") =>
                   observed[e].media_track = md.dict["trackNumber"]
            /\ Has(md, "duration") =>
                   observed[e].media_duration = md.dict["duration"]
            /\ Has(pr, "position") =>
                   observed[e].media_position = pr.dict["position"]

\* C3: an accessor whose key is absent from the stream's metadata (or
\* properties) mapping, or whose mapping is empty or None, reports None.
C3_AbsentIsNone ==
    \A e \in Added :
        LET md == metadata[current_stream(e)]
            pr == properties[current_stream(e)]
        IN  /\ ~Has(md, "title") => observed[e].media_title = None
            /\ ~Has(md, "artUrl") => observed[e].media_image_url = None
            /\ ~Has(md, "artist") => observed[e].media_artist = None
            /\ ~Has(md, "album") => observed[e].media_album_name = None
            /\ ~Has(md, "albumArtist") => observed[e].media_album_artist = None
            /\ ~Has(md, "trackNumber") => observed[e].media_track = None
            /\ ~Has(md, "duration") => observed[e].media_duration = None
            /\ ~Has(pr, "position") => observed[e].media_position = None

\* Entity 1's stream has a title and nothing else, and properties without
\* a position: the title is reported, every other attribute is None.
C3_Witness ==
    /\ current_stream(1) = "s1"
    /\ metadata["s1"] = D([k \in {"title"} |-> S("Song")])
    /\ properties["s1"] = D([k \in {"canSeek"} |-> B(TRUE)])
    /\ observed[1].media_title = S("Song")
    /\ observed[1].media_artist = None
    /\ observed[1].media_track = None
    /\ observed[1].media_position = None

\* C9: the reported state is STANDBY when the client is not connected,
\* IDLE when it is connected and the client or its group is muted, and
\* otherwise IDLE or PLAYING for a stream status of idle or playing and
\* None for any other status; the entity is available exactly when the
\* coordinator is available and the client is connected, so an entity
\* reporting STANDBY is unavailable.
C9_StateFunction ==
    \A e \in Added :
        LET c == ClientOf(e)
            g == clientGroup[c]
            status == streamStatus[groupStream[g]]
            expected == IF ~connected[c] THEN S("standby")
                        ELSE IF muted[c] \/ groupMuted[g] THEN S("idle")
                        ELSE IF status = "idle" THEN S("idle")
                        ELSE IF status = "playing" THEN S("playing")
                        ELSE None
        IN  /\ observed[e].state = expected
            /\ observed[e].available <=> (coordinatorOk /\ connected[c])
            /\ observed[e].state = S("standby") => ~observed[e].available

\* Entity 1 is connected and not muted, its group is muted while the
\* stream plays: the entity is available and reports IDLE.
C9_Witness ==
    /\ connected["c1"] /\ ~muted["c1"]
    /\ groupMuted[clientGroup["c1"]]
    /\ streamStatus[groupStream[clientGroup["c1"]]] = "playing"
    /\ observed[1].state = S("idle")
    /\ observed[1].available


(* ------------------------------------------------------------------ *)
(* async_setup_entry: entity reconciliation, and the host's entity     *)
(* lifecycle.  The host adds the entities it was handed and removes    *)
(* the entities whose registry entry was deleted in tasks of its own,  *)
(* in an order the platform file does not control.                     *)
(* ------------------------------------------------------------------ *)

\* _update_known_ids with `known_ids = known_ids - ids_to_remove` and
\* `known_ids = known_ids | ids_to_add`: the local name is rebound and the
\* caller's set stays as it was.
_update_known_ids_rebound(known_ids, ids) ==
    [known |-> known_ids,
     ids_to_add |-> ids \ known_ids,
     ids_to_remove |-> known_ids \ ids]

\* _update_known_ids: the set is updated in place.
_update_known_ids(known_ids, ids) ==
    LET ids_to_add == ids \ known_ids
        ids_to_remove == known_ids \ ids
    IN  [known |-> (known_ids \ ids_to_remove) \cup ids_to_add,
         ids_to_add |-> ids_to_add,
         ids_to_remove |-> ids_to_remove]

FreeEntities == {e \in Entities : ents[e].phase = "free"}

\* _check_entities, the coordinator's listener.  `slot` gives each new
\* client the entity object created for it.
_check_entities ==
    LET ids == clients
        upd == _update_known_ids(known, ids)
        registered == {c \in upd.ids_to_remove : registry[c] # 0}
    IN  \E slot \in [upd.ids_to_add -> FreeEntities] :
            /\ \A c, d \in upd.ids_to_add : slot[c] = slot[d] => c = d
            /\ known' = upd.known
            \* async_add_entities([...]): handed to the host, added later
            \* registry.async_remove(entity_id): the entry goes at once, the
            \* entity's own removal is the host's
            /\ ents' = [e \in Entities |->
                           IF \E c \in upd.ids_to_add : slot[c] = e
                           THEN [client |-> CHOOSE c \in upd.ids_to_add : slot[c] = e,
                                 phase |-> "pending"]
                           ELSE IF \E c \in registered : registry[c] = e
                           THEN [ents[e] EXCEPT !.phase = "removing"]
                           ELSE ents[e]]
            /\ registry' = [c \in Clients |-> IF c \in registered THEN 0 ELSE registry[c]]
            /\ lastRun' = [ids |-> ids, before |-> known,
                           added |-> {ents'[e].client :
                                          e \in {x \in Entities :
                                                     /\ ents[x].phase = "free"
                                                     /\ ents'[x].phase = "pending"}},
                           lookups |-> upd.ids_to_remove,
                           removed |-> registered]
            /\ UNCHANGED <<clients, callback, coordinatorOk>>
            /\ UNCHANGED <<clientVars, groupVars, streamVars, call, snapAt, observed>>

LifeFrame == UNCHANGED <<clientVars, groupVars, streamVars, call, snapAt, observed>>

\* The server's client set gains or loses a client.
ServerClientAppears(c) ==
    /\ c \notin clients
    /\ clients' = clients \cup {c}
    /\ UNCHANGED <<callback, coordinatorOk, known, ents, registry, lastRun>>
    /\ LifeFrame

ServerClientDisappears(c) ==
    /\ c \in clients
    /\ clients' = clients \ {c}
    /\ UNCHANGED <<callback, coordinatorOk, known, ents, registry, lastRun>>
    /\ LifeFrame

\* async_added_to_hass: self._client.set_callback(self.schedule_update_ha_state)
async_added_to_hass(e) ==
    callback' = [callback EXCEPT ![ClientOf(e)] = e]

\* async_will_remove_from_hass: self._client.set_callback(None)
async_will_remove_from_hass(e) ==
    callback' = [callback EXCEPT ![ClientOf(e)] = 0]

\* The host adds a pending entity: it registers the unique id and runs
\* async_added_to_hass.  An entity whose unique id is already registered is
\* refused and dropped.
HostAddsEntity(e) ==
    /\ ents[e].phase = "pending"
    /\ IF registry[ClientOf(e)] = 0
       THEN /\ registry' = [registry EXCEPT ![ClientOf(e)] = e]
            /\ ents' = [ents EXCEPT ![e].phase = "added"]
            /\ async_added_to_hass(e)
       ELSE /\ ents' = [ents EXCEPT ![e] = NoEntity]
            /\ UNCHANGED <<registry, callback>>
    /\ UNCHANGED <<clients, coordinatorOk, known, lastRun>>
    /\ LifeFrame

\* The host removes an entity whose registry entry was deleted: it runs
\* async_will_remove_from_hass and drops the object.
HostRemovesEntity(e) ==
    /\ ents[e].phase = "removing"
    /\ async_will_remove_from_hass(e)
    /\ ents' = [ents EXCEPT ![e] = NoEntity]
    /\ UNCHANGED <<clients, coordinatorOk, known, registry, lastRun>>
    /\ LifeFrame

(* ------------------------------------------------------------------ *)
(* SpecLife: clients come and go, the listener runs, the host adds and *)
(* removes entities                                                    *)
(* ------------------------------------------------------------------ *)

\* async_setup_entry before its first _check_entities(): no known ids, the
\* config entry's registry entries cleared, no entity yet.
InitLife ==
    /\ InitLibrary
    /\ clients \in SUBSET Clients
    /\ coordinatorOk = TRUE
    /\ known = {}
    /\ ents = [e \in Entities |-> NoEntity]
    /\ registry = [c \in Clients |-> 0]
    /\ callback = [c \in Clients |-> 0]
    /\ lastRun = NoRun
    /\ call = NoCall
    /\ snapAt = [c \in Clients |-> None]
    /\ observed = Reported

CheckEntities == _check_entities
ClientAppears == \E c \in Clients : ServerClientAppears(c)
ClientDisappears == \E c \in Clients : ServerClientDisappears(c)
HostAdds == \E e \in Entities : HostAddsEntity(e)
HostRemoves == \E e \in Entities : HostRemovesEntity(e)

NextLife == CheckEntities \/ ClientAppears \/ ClientDisappears \/ HostAdds \/ HostRemoves

SpecLife == InitLife /\ [][NextLife]_vars

(* ------------------------------------------------------------------ *)
(* Properties of reconciliation and of the callback slot               *)
(* ------------------------------------------------------------------ *)

\* C6: after every run of _check_entities the known ids are the ids the
\* server held at that run; the run created entities for exactly the ids
\* held then and not known before, looked up a registry entry to remove for
\* exactly the ids known before and held no more, and no id was both added
\* and removed, or added while known.
C6_Reconciliation ==
    /\ known = lastRun.ids
    /\ lastRun.added = lastRun.ids \ lastRun.before
    /\ lastRun.lookups = lastRun.before \ lastRun.ids
    /\ lastRun.removed \subseteq lastRun.lookups
    /\ lastRun.added \cap lastRun.lookups = {}
    /\ lastRun.added \cap lastRun.before = {}

\* One run that found c1 new and c2, known and registered, gone.
C6_Witness ==
    /\ lastRun.added = {"c1"}
    /\ lastRun.removed = {"c2"}
    /\ known = {"c1"}
    /\ \E e \in Entities : ents[e] = [client |-> "c1", phase |-> "pending"]
    /\ \E e \in Entities : ents[e] = [client |-> "c2", phase |-> "removing"]

\* C10: an entity that is added to the host, and whose removal has not
\* been asked for, holds the callback slot of its client, also when the
\* removal of a stale entity of the same client runs after its addition;
\* and a client with no entity added has an empty slot.
C10_CallbackLifecycle ==
    /\ \A e \in Added : callback[ClientOf(e)] = e
    /\ \A c \in Clients :
           (\A e \in Entities : ~(ents[e].client = c
                                  /\ ents[e].phase \in {"added", "removing"}))
               => callback[c] = 0

====
